---- MODULE Spec2Model ----
(***************************************************************************)
(* Model of streak-calendar-v2: the YearlyOverview component               *)
(* (src/src/components/calendar/calendar-dialogs.tsx, lines 541-676), the  *)
(* four calendar and habit dialogs (lines 111-516 of the same file) and    *)
(* the i18n request configuration (src/unnamed/part_000, lines 77-91).     *)
(*                                                                         *)
(* Time.  An instant (a JavaScript Date, or a completedAt number) is an    *)
(* integer count of hours since 1970-01-01T00:00Z.  The local time zone    *)
(* is a fixed offset tz (in hours) east of UTC; daylight saving is not     *)
(* modelled.  A local calendar date is a day number (days since            *)
(* 1970-01-01) or a record [year, month, date] with month 0-based as in    *)
(* JavaScript.                                                             *)
(*                                                                         *)
(* Strings.  The string "yyyy-MM-dd" is the integer yyyy*10000+MM*100+dd,  *)
(* the string "MMM yyyy" the record [month, year], "MMM" the month index.  *)
(***************************************************************************)
EXTENDS Integers, Sequences, FiniteSets, TLC

VARIABLES
  tz,                \* local time-zone offset, hours east of UTC
  clock,             \* wall clock: hours since the epoch (UTC)
  phase,             \* "unmounted" before the first render, then "mounted"
  completions,       \* the completions prop: sequence of [habitId, completedAt]
  completionsRef,    \* identity of the array passed as the completions prop
  memoSkeleton,      \* useMemo cell of {weeks, monthLabels}   (deps [])
  memoCounts,        \* useMemo cell of completionCounts       (deps [completions])
  memoTotal,         \* useMemo cell of totalCompletions       (deps [completionCounts])
  view,              \* what the last render put on screen
  renderedAt,        \* wall clock at the last render
  dialog,            \* the state of one calendar or habit dialog and of its parent
  request            \* one run of the i18n request configuration

vars == <<tz, clock, phase, completions, completionsRef, memoSkeleton, memoCounts, memoTotal, view, renderedAt, dialog, request>>

\* the state of the yearly overview
overviewVars == <<tz, clock, phase, completions, completionsRef, memoSkeleton, memoCounts, memoTotal, view, renderedAt>>

-----------------------------------------------------------------------------
(* Bounds of the model *)

\* number of consecutive local dates, from FirstNowDay on, tried as "today"
NumNowDays == 460

\* longest completions list drawn as an input
MaxEvents == 3

\* largest per-day count drawn as an input of a grid cell
MaxCount == 12

\* number of times the wall clock advances during one mounted lifetime
MaxTicks == 2

\* number of distinct array identities the data layer hands out
MaxRefs == 3

\* number of invocations of onSubmit, and of onDelete, followed in one dialog
MaxCalls == 2

-----------------------------------------------------------------------------
(* The proleptic Gregorian calendar, as the JavaScript Date object and *)
(* date-fns compute it.                                                  *)

NULL == 0

HoursPerDay == 24

\* day number of the civil date year y, month m (1 = January), day d
DaysFromCivil(y, m, d) ==
  LET yy  == IF m <= 2 THEN y - 1 ELSE y
      era == yy \div 400
      yoe == yy - era * 400
      mp  == IF m > 2 THEN m - 3 ELSE m + 9
      doy == (153 * mp + 2) \div 5 + d - 1
      doe == yoe * 365 + yoe \div 4 - yoe \div 100 + doy
  IN  era * 146097 + doe - 719468

\* [year, month (0-based), date] of day number z
CivilFromDays(z) ==
  LET zz  == z + 719468
      era == zz \div 146097
      doe == zz - era * 146097
      yoe == (doe - doe \div 1460 + doe \div 36524 - doe \div 146096) \div 365
      doy == doe - (365 * yoe + yoe \div 4 - yoe \div 100)
      mp  == (5 * doy + 2) \div 153
      d   == doy - (153 * mp + 2) \div 5 + 1
      m   == IF mp < 10 THEN mp + 3 ELSE mp - 9
      y   == yoe + era * 400 + (IF m <= 2 THEN 1 ELSE 0)
  IN  [year |-> y, month |-> m - 1, date |-> d]

\* ECMAScript MakeDay: the month may lie outside 0..11 and the date outside
\* the month; both carry over
MakeDay(y, m0, d) == DaysFromCivil(y + m0 \div 12, (m0 % 12) + 1, 1) + d - 1

\* local day number and local hour of the day of instant t
LocalDay(t) == (t + tz) \div HoursPerDay

LocalHour(t) == (t + tz) % HoursPerDay

\* the instant whose local date is day number dn and whose local hour is h
LocalInstant(dn, h) == dn * HoursPerDay + h - tz

\* Date.prototype.getFullYear / getMonth / getDate, in local time
LocalFields(t) == CivilFromDays(LocalDay(t))

-----------------------------------------------------------------------------
(* date-fns, as called at lines 553-557, 583-584, 597 *)

\* addMonths(date, amount): the same local time of day, amount months later,
\* the day of the month clamped to the length of the target month
addMonths(t, amount) ==
  LET f                 == LocalFields(t)
      dayOfMonth        == f.date
      endOfDesiredMonth == MakeDay(f.year, f.month + amount + 1, 0)
      e                 == CivilFromDays(endOfDesiredMonth)
      daysInMonth       == e.date
  IN  IF dayOfMonth >= daysInMonth
      THEN LocalInstant(endOfDesiredMonth, LocalHour(t))
      ELSE LocalInstant(MakeDay(e.year, e.month, dayOfMonth), LocalHour(t))

\* mutant of subYears: a year taken as 365 days
subYears_365Days(t, amount) == t - amount * 365 * HoursPerDay

\* subYears(date, amount) = addYears(date, -amount) = addMonths(date, -12 * amount)
subYears(t, amount) == addMonths(t, -(12 * amount))

\* eachDayOfInterval({start, end}): the local midnights from the start of the
\* day of `start` on, as long as they are not after the instant `end`
eachDayOfInterval(start, end) ==
  LET first == LocalDay(start)
      n     == IF LocalInstant(first, 0) > end THEN 0
               ELSE (end - LocalInstant(first, 0)) \div HoursPerDay + 1
  IN  [i \in 1..n |-> LocalInstant(first + i - 1, 0)]

\* mutant of getDay: weeks numbered from Monday
getDay_MondayFirst(t) == (LocalDay(t) + 3) % 7

\* getDay(date): 0 = Sunday ... 6 = Saturday (1970-01-01 was a Thursday)
getDay(t) == (LocalDay(t) + 4) % 7

\* format(date, "yyyy-MM-dd")
FormatDayKey(t) ==
  LET f == LocalFields(t)
  IN  f.year * 10000 + (f.month + 1) * 100 + f.date

\* format(date, "MMM yyyy")
FormatMonthYear(t) ==
  LET f == LocalFields(t)
  IN  [month |-> f.month, year |-> f.year]

\* format(date, "MMM")
FormatMonth(t) == LocalFields(t).month

-----------------------------------------------------------------------------
(* The skeleton: weeks and month labels (lines 551-589) *)

\* Date.prototype.setMonth(month) on a copy of date t
setMonth(t, m0) ==
  LET f == LocalFields(t)
  IN  LocalInstant(MakeDay(f.year, m0, f.date), LocalHour(t))

\* mutant of emptyStartDays: the first week is not padded
emptyStartDays_None(firstDayOfWeek) == <<>>

\* Array(firstDayOfWeek).fill(null)
emptyStartDays(firstDayOfWeek) == [i \in 1..firstDayOfWeek |-> NULL]

\* the test of line 563 that closes the current week
WeekIsFull(currentWeek) == Len(currentWeek) = 7

\* the callback of days.forEach, lines 562-568, applied to one day
PushDay(acc, day) ==
  IF WeekIsFull(acc.currentWeek)
  THEN [weeks |-> Append(acc.weeks, acc.currentWeek), currentWeek |-> <<day>>]
  ELSE [weeks |-> acc.weeks, currentWeek |-> Append(acc.currentWeek, day)]

RECURSIVE ForEachDay(_, _, _, _)
\* days.forEach: the callback applied to days[lo..hi] in index order (the
\* range is split in halves only to keep TLC's evaluation stack shallow)
ForEachDay(days, lo, hi, acc) ==
  IF lo > hi THEN acc
  ELSE IF lo = hi THEN PushDay(acc, days[lo])
  ELSE LET mid   == (lo + hi) \div 2
           first == ForEachDay(days, lo, mid, acc)
       IN  \* the test makes TLC finish the first half before the second
           IF Len(first.weeks) >= 0 THEN ForEachDay(days, mid + 1, hi, first) ELSE first

\* mutant of PushLastWeek: the last week is pushed as it is
PushLastWeek_NoPadding(weeks, currentWeek) ==
  IF Len(currentWeek) > 0 THEN Append(weeks, currentWeek) ELSE weeks

\* lines 570-575: the last week is filled with nulls up to 7 slots and pushed
PushLastWeek(weeks, currentWeek) ==
  IF Len(currentWeek) > 0
  THEN Append(weeks, currentWeek \o [i \in 1..(7 - Len(currentWeek)) |-> NULL])
  ELSE weeks

\* lines 556-575
BuildWeeks(yearAgo, days) ==
  LET firstDayOfWeek == getDay(yearAgo)
      r == ForEachDay(days, 1, Len(days),
                      [weeks |-> <<>>, currentWeek |-> emptyStartDays(firstDayOfWeek)])
  IN  PushLastWeek(r.weeks, r.currentWeek)

\* lines 580-581: new Date(yearAgo) moved i months on with setMonth
LabelDate(yearAgo, i) == setMonth(yearAgo, LocalFields(yearAgo).month + i)

\* lines 578-586
BuildMonthLabels(yearAgo) ==
  [j \in 1..13 |-> [key   |-> FormatMonthYear(LabelDate(yearAgo, j - 1)),
                    label |-> FormatMonth(LabelDate(yearAgo, j - 1))]]

\* line 554: .map((date) => format(date, "yyyy-MM-dd"))
FormatDays(dates) == [i \in 1..Len(dates) |-> FormatDayKey(dates[i])]

\* lines 554-588, with yearAgo computed
SkeletonFrom(yearAgo, today) ==
  [weeks       |-> BuildWeeks(yearAgo, FormatDays(eachDayOfInterval(yearAgo, today))),
   monthLabels |-> BuildMonthLabels(yearAgo)]

\* the body of the useMemo of lines 551-589, run when the clock reads `today`
ComputeSkeleton(today) == SkeletonFrom(subYears(today, 1), today)

-----------------------------------------------------------------------------
(* Completion counts, colour classes, total (lines 592-630) *)

\* counts[dateKey] || 0
CountOr0(counts, k) == IF k \in DOMAIN counts /\ counts[k] # 0 THEN counts[k] ELSE 0

\* mutant of dateKey: the date is taken in UTC instead of local time
dateKey_UTC(completion) ==
  LET f == CivilFromDays(completion.completedAt \div HoursPerDay)
  IN  f.year * 10000 + (f.month + 1) * 100 + f.date

\* format(new Date(completion.completedAt), "yyyy-MM-dd")
dateKey(completion) == FormatDayKey(completion.completedAt)

\* line 598
Increment(counts, k) ==
  [x \in (DOMAIN counts) \cup {k} |-> IF x = k THEN CountOr0(counts, k) + 1 ELSE counts[x]]

RECURSIVE CountFrom(_, _, _)
\* completions.forEach of lines 595-599, from index i on
CountFrom(list, i, counts) ==
  IF i > Len(list) THEN counts
  ELSE CountFrom(list, i + 1, Increment(counts, dateKey(list[i])))

\* mutant of ComputeCounts: the counts object is shared by all computations
\* instead of created in each
ComputeCounts_SharedObject(list) == CountFrom(list, 1, memoCounts.value)

\* the body of the useMemo of lines 592-602
ComputeCounts(list) == CountFrom(list, 1, <<>>)

\* mutant of getColorClass: strict comparisons at the thresholds
getColorClass_Strict(count) ==
  IF count = 0 THEN "bg-neutral-100 dark:bg-neutral-800"
  ELSE IF count < 2 THEN "bg-emerald-200 dark:bg-emerald-500"
  ELSE IF count < 5 THEN "bg-emerald-300 dark:bg-emerald-600"
  ELSE IF count < 10 THEN "bg-emerald-400 dark:bg-emerald-700"
  ELSE "bg-emerald-500 dark:bg-emerald-800"

\* getColorClass, lines 605-611
getColorClass(count) ==
  IF count = 0 THEN "bg-neutral-100 dark:bg-neutral-800"
  ELSE IF count <= 2 THEN "bg-emerald-200 dark:bg-emerald-500"
  ELSE IF count <= 5 THEN "bg-emerald-300 dark:bg-emerald-600"
  ELSE IF count <= 10 THEN "bg-emerald-400 dark:bg-emerald-700"
  ELSE "bg-emerald-500 dark:bg-emerald-800"

\* new Date(day) of line 621: a date-only string "yyyy-MM-dd" is read as
\* midnight UTC of that date
ParseDayKey(day) ==
  DaysFromCivil(day \div 10000, (day \div 100) % 100, day % 100) * HoursPerDay

\* format(date, "MMM d, yyyy") of line 621, in local time
FormatTitleDate(t) ==
  [month |-> LocalFields(t).month, date |-> LocalFields(t).date, year |-> LocalFields(t).year]

\* the title attribute of line 621: "<MMM d, yyyy>: <count> completions"
CellTitle(day, count) == [on |-> FormatTitleDate(ParseDayKey(day)), count |-> count]

\* GridCell, lines 614-624: an empty slot renders a bare div, a day renders a
\* coloured div with a title
GridCell(day, counts) ==
  IF day = NULL THEN [day |-> NULL, count |-> 0, class |-> "", title |-> ""]
  ELSE [day |-> day, count |-> CountOr0(counts, day),
        class |-> getColorClass(CountOr0(counts, day)),
        title |-> CellTitle(day, CountOr0(counts, day))]

RECURSIVE SumValues(_, _)
\* Object.values(counts).reduce((sum, count) => sum + count, 0) over the keys ks
SumValues(counts, ks) ==
  IF ks = {} THEN 0
  ELSE LET k == CHOOSE x \in ks : TRUE
       IN  counts[k] + SumValues(counts, ks \ {k})

\* mutant of ComputeTotal: the days are counted instead of the completions
ComputeTotal_CountsDays(counts) == Cardinality(DOMAIN counts)

\* the body of the useMemo of lines 628-630
ComputeTotal(counts) == SumValues(counts, DOMAIN counts)

-----------------------------------------------------------------------------
(* The component: hooks and render (lines 541-676) *)

\* dependency lists of the three useMemo hooks (lines 589, 602, 630)
SkeletonDeps == <<>>

\* mutant of CountsDeps: the counts are memoized like the skeleton
CountsDeps_Empty(ref) == <<>>

CountsDeps(ref) == <<ref>>

TotalDeps(countsId) == <<countsId>>

\* useMemo: the cell is recomputed on the first render and whenever the
\* dependency list differs from the one stored with the cell
Stale(cell, deps) == phase = "unmounted" \/ cell.deps # deps

NoCell == [deps |-> <<>>, value |-> <<>>, id |-> 0]

NoView == [weeks |-> <<>>, monthLabels |-> <<>>, cells |-> <<>>, total |-> 0]

\* lines 662-668: one GridCell per slot of every week
RenderCells(weeks, counts) ==
  [w \in 1..Len(weeks) |-> [s \in 1..Len(weeks[w]) |-> GridCell(weeks[w][s], counts)]]

\* one run of the function component with the props (ref, list): the three
\* useMemo hooks in the order of the code, then the JSX
RenderWith(ref, list) ==
  /\ memoSkeleton' =
       IF Stale(memoSkeleton, SkeletonDeps)
       THEN [deps |-> SkeletonDeps, value |-> ComputeSkeleton(clock), id |-> memoSkeleton.id + 1]
       ELSE memoSkeleton
  /\ memoCounts' =
       IF Stale(memoCounts, CountsDeps(ref))
       THEN [deps |-> CountsDeps(ref), value |-> ComputeCounts(list), id |-> memoCounts.id + 1]
       ELSE memoCounts
  /\ memoTotal' =
       IF Stale(memoTotal, TotalDeps(memoCounts'.id))
       THEN [deps |-> TotalDeps(memoCounts'.id), value |-> ComputeTotal(memoCounts'.value),
             id |-> memoTotal.id + 1]
       ELSE memoTotal
  /\ view' = [weeks       |-> memoSkeleton'.value.weeks,
              monthLabels |-> memoSkeleton'.value.monthLabels,
              cells       |-> RenderCells(memoSkeleton'.value.weeks, memoCounts'.value),
              total       |-> memoTotal'.value]
  /\ renderedAt' = clock
  /\ phase' = "mounted"

\* first render of the component with the props the parent holds
Mount ==
  /\ phase = "unmounted"
  /\ RenderWith(completionsRef, completions)
  /\ UNCHANGED <<tz, clock, completions, completionsRef, dialog, request>>

\* the parent renders again with the same completions array
Rerender ==
  /\ phase = "mounted"
  /\ RenderWith(completionsRef, completions)
  /\ UNCHANGED <<tz, clock, completions, completionsRef, dialog, request>>

\* the data layer holds completions that were recorded, none of a later time
\* than the wall clock
Recorded(list) == \A i \in 1..Len(list) : list[i].completedAt <= clock

\* the data layer delivers a new completions array and the component renders
SetCompletions(list) ==
  /\ phase = "mounted"
  /\ Recorded(list)
  /\ completionsRef < MaxRefs
  /\ completions' = list
  /\ completionsRef' = completionsRef + 1
  /\ RenderWith(completionsRef + 1, list)
  /\ UNCHANGED <<tz, clock, dialog, request>>

\* no dialog is rendered, no request is handled
NoDialog == [kind |-> "none"]

NoRequest == [phase |-> "none"]

-----------------------------------------------------------------------------
(* Inputs *)

TZOffsets == {-8, 0, 9}

\* first local date tried as "today"
FirstNowDay == DaysFromCivil(2023, 12, 1)

NowHours == {0, 23}

Unmounted ==
  /\ phase = "unmounted"
  /\ memoSkeleton = NoCell
  /\ memoCounts = NoCell
  /\ memoTotal = NoCell
  /\ view = NoView
  /\ renderedAt = 0
  /\ dialog = NoDialog
  /\ request = NoRequest

\* every "now" of the range, no completions
InitSkeleton ==
  /\ tz \in TZOffsets
  /\ \E d \in FirstNowDay..(FirstNowDay + NumNowDays - 1), h \in NowHours :
       clock = LocalInstant(d, h)
  /\ completions = <<>>
  /\ completionsRef = 1
  /\ Unmounted

SpecSkeleton == InitSkeleton /\ [][Mount]_vars

\* the day around which the completions of the inputs lie: 29 February 2024
EventDay == DaysFromCivil(2024, 2, 29)

\* completions early, in the middle and late in the UTC day EventDay, so that
\* their local dates differ with the time zone
EventPool ==
  { [habitId |-> "h1", completedAt |-> EventDay * HoursPerDay + 2],
    [habitId |-> "h1", completedAt |-> EventDay * HoursPerDay + 10],
    [habitId |-> "h2", completedAt |-> EventDay * HoursPerDay + 10],
    [habitId |-> "h1", completedAt |-> EventDay * HoursPerDay + 20] }

\* every completions list of at most MaxEvents pool events, noon two days later
InitCounts ==
  /\ tz \in TZOffsets
  /\ clock = LocalInstant(EventDay + 2, 12)
  /\ \E n \in 0..MaxEvents : completions \in [1..n -> EventPool]
  /\ completionsRef = 1
  /\ Unmounted

SpecCounts == InitCounts /\ [][Mount]_vars

\* the data layer delivers a new array with the same completions
Redeliver == SetCompletions(completions)

NextRepeat == Mount \/ Rerender \/ Redeliver

\* completions early and late in the UTC day EventDay
RepeatPool == {c \in EventPool : c.habitId = "h1" /\ c.completedAt # EventDay * HoursPerDay + 10}

\* every completions list of at most MaxEvents of these, noon two days later
InitRepeat ==
  /\ tz \in TZOffsets
  /\ clock = LocalInstant(EventDay + 2, 12)
  /\ \E n \in 0..MaxEvents : completions \in [1..n -> RepeatPool]
  /\ completionsRef = 1
  /\ Unmounted

\* the lists rendered again and delivered again at the same time
SpecRepeat == InitRepeat /\ [][NextRepeat]_vars

\* n times completion c
Repeat(c, n) == [i \in 1..n |-> c]

\* lists with up to MaxCount completions on each of two days
InitCell ==
  /\ tz \in TZOffsets
  /\ clock = LocalInstant(EventDay + 2, 12)
  /\ \E n, m \in 0..MaxCount :
       completions =
         Repeat([habitId |-> "h1", completedAt |-> EventDay * HoursPerDay + 10], n)
         \o Repeat([habitId |-> "h2", completedAt |-> (EventDay - 7) * HoursPerDay + 10], m)
  /\ completionsRef = 1
  /\ Unmounted

SpecCell == InitCell /\ [][Mount]_vars

\* the wall clock when a lifetime starts: 18:00 on 28 February 2024, local time
StartInstant == LocalInstant(EventDay - 1, 18)

\* the wall clock advances by half a day
TickHours == HoursPerDay \div 2

Tick ==
  /\ clock + TickHours <= StartInstant + MaxTicks * TickHours
  /\ clock' = clock + TickHours
  /\ UNCHANGED <<tz, phase, completions, completionsRef, memoSkeleton, memoCounts, memoTotal, view, renderedAt, dialog, request>>

\* the completions lists the data layer delivers during a lifetime
LifeLists ==
  { <<>>,
    <<[habitId |-> "h1", completedAt |-> EventDay * HoursPerDay - 30]>>,
    <<[habitId |-> "h1", completedAt |-> EventDay * HoursPerDay - 30],
      [habitId |-> "h2", completedAt |-> EventDay * HoursPerDay - 20]>>,
    <<[habitId |-> "h1", completedAt |-> EventDay * HoursPerDay - 30],
      [habitId |-> "h1", completedAt |-> EventDay * HoursPerDay + 9]>> }

Init ==
  /\ tz \in TZOffsets
  /\ clock = StartInstant
  /\ completions \in LifeLists
  /\ Recorded(completions)
  /\ completionsRef = 1
  /\ Unmounted

Next ==
  \/ Mount
  \/ Rerender
  \/ \E list \in LifeLists : SetCompletions(list)
  \/ Tick

Spec == Init /\ [][Next]_vars

-----------------------------------------------------------------------------
(* Vocabulary of the properties: calendar dates read off a "yyyy-MM-dd" key, *)
(* computed on the civil calendar without day numbers                        *)

IsLeapYear(y) == (y % 4 = 0 /\ y % 100 # 0) \/ y % 400 = 0

\* number of days of month m0 (0 = January) of year y
DaysInMonth(y, m0) ==
  IF m0 = 1 THEN (IF IsLeapYear(y) THEN 29 ELSE 28)
  ELSE IF m0 \in {3, 5, 8, 10} THEN 30 ELSE 31

KeyYear(k) == k \div 10000

KeyMonth(k) == (k \div 100) % 100

KeyDate(k) == k % 100

MakeKey(y, m, d) == y * 10000 + m * 100 + d

\* the calendar day after the day of key k
NextDayKey(k) ==
  IF KeyDate(k) < DaysInMonth(KeyYear(k), KeyMonth(k) - 1) THEN k + 1
  ELSE IF KeyMonth(k) < 12 THEN MakeKey(KeyYear(k), KeyMonth(k) + 1, 1)
  ELSE MakeKey(KeyYear(k) + 1, 1, 1)

\* the same day of the same month one year earlier, 29 February giving 28 February
YearBeforeKey(k) ==
  LET last == DaysInMonth(KeyYear(k) - 1, KeyMonth(k) - 1)
  IN  MakeKey(KeyYear(k) - 1, KeyMonth(k), IF KeyDate(k) > last THEN last ELSE KeyDate(k))

\* weekday of the day of key k, 0 = Sunday (Sakamoto's rule)
WeekdayOfKey(k) ==
  LET m == KeyMonth(k)
      y == IF m < 3 THEN KeyYear(k) - 1 ELSE KeyYear(k)
      t == <<0, 3, 2, 5, 0, 3, 5, 1, 4, 6, 2, 4>>
  IN  (y + y \div 4 - y \div 100 + y \div 400 + t[m] + KeyDate(k)) % 7

\* the local calendar date the clock showed at the last render
TodayKey == FormatDayKey(renderedAt)

RECURSIVE Flatten(_)
\* the slots of all weeks, week by week and slot by slot
Flatten(ws) == IF ws = <<>> THEN <<>> ELSE Head(ws) \o Flatten(Tail(ws))

IsRealDay(x) == x # NULL

\* the non-empty slots of the grid on screen, in reading order
RealDays == SelectSeq(Flatten(view.weeks), IsRealDay)

\* number of empty slots before the first real day of week w
LeadingEmpty(w) == Cardinality({s \in 1..Len(w) : \A r \in 1..s : w[r] = NULL})

\* number of empty slots after the last real day of week w
TrailingEmpty(w) == Cardinality({s \in 1..Len(w) : \A r \in s..Len(w) : w[r] = NULL})

Mounted == phase = "mounted"

-----------------------------------------------------------------------------
(* Properties of the skeleton *)

\* C1: every week of the grid has exactly 7 slots, so the number of slots of
\* the whole grid is a multiple of 7
C1_WeeksHaveSevenSlots ==
  Mounted =>
    /\ \A w \in 1..Len(view.weeks) : Len(view.weeks[w]) = 7
    /\ Len(Flatten(view.weeks)) % 7 = 0

\* C1 witness: a grid whose last week needed trailing padding
C1_Witness ==
  /\ Mounted
  /\ Len(view.weeks) >= 53
  /\ TrailingEmpty(view.weeks[Len(view.weeks)]) > 0
  /\ Len(view.weeks[Len(view.weeks)]) = 7

\* C2: the non-empty slots, in reading order, are the consecutive calendar
\* days from (today minus one calendar year) to today, each once; there are
\* 366 or 367 of them
C2_WindowIsLastYear ==
  Mounted =>
    LET real == RealDays
    IN  /\ Len(real) \in {366, 367}
        /\ real[1] = YearBeforeKey(TodayKey)
        /\ real[Len(real)] = TodayKey
        /\ \A i \in 1..(Len(real) - 1) : real[i + 1] = NextDayKey(real[i])

\* C2 witness: today is 29 February 2024 and the window has 367 days
C2_Witness ==
  /\ Mounted
  /\ TodayKey = 20240229
  /\ Len(RealDays) = 367
  /\ RealDays[1] = 20230228

\* C3: the number of empty slots at the start of the first week is the
\* weekday index (0 = Sunday) of the window's first day; it is 3 for
\* today = 2024-03-15
C3_LeadingPadding ==
  Mounted =>
    /\ Len(view.weeks) > 0
    /\ LeadingEmpty(view.weeks[1]) = WeekdayOfKey(YearBeforeKey(TodayKey))
    /\ TodayKey = 20240315 => LeadingEmpty(view.weeks[1]) = 3

\* C3 witness: today is 2024-03-15, the window starts on a Wednesday
C3_Witness ==
  /\ Mounted
  /\ TodayKey = 20240315
  /\ view.weeks[1][4] = 20230315
  /\ LeadingEmpty(view.weeks[1]) = 3

\* C4: a real day sits in the slot of its weekday; empty slots are only at
\* the start of the first week and at the end of the last week; no week is
\* empty
C4_SlotsAlignWithWeekdays ==
  Mounted =>
    \A w \in 1..Len(view.weeks) :
      /\ \A s \in 1..Len(view.weeks[w]) :
           IF view.weeks[w][s] # NULL
           THEN WeekdayOfKey(view.weeks[w][s]) = s - 1
           ELSE \/ w = 1 /\ \A r \in 1..s : view.weeks[w][r] = NULL
                \/ w = Len(view.weeks) /\ \A r \in s..Len(view.weeks[w]) : view.weeks[w][r] = NULL
      /\ \E s \in 1..Len(view.weeks[w]) : view.weeks[w][s] # NULL

\* C4 witness: a grid with padding on both ends
C4_Witness ==
  /\ Mounted
  /\ Len(view.weeks) = 54
  /\ LeadingEmpty(view.weeks[1]) > 0
  /\ TrailingEmpty(view.weeks[54]) > 0

\* the j-th calendar month (j = 0 for the month itself) from the month of key k on
MonthAfter(k, j) ==
  LET n == KeyYear(k) * 12 + (KeyMonth(k) - 1) + j
  IN  [month |-> n % 12, year |-> n \div 12]

\* C8: there are 13 month labels, their keys are pairwise distinct, and they
\* are the 13 consecutive months from the month of the window's first day to
\* the current month
C8_MonthLabelKeysDistinct ==
  Mounted =>
    LET labels == view.monthLabels
    IN  /\ Len(labels) = 13
        /\ \A i, j \in 1..Len(labels) : i # j => labels[i].key # labels[j].key
        /\ \A j \in 1..Len(labels) : labels[j].key = MonthAfter(YearBeforeKey(TodayKey), j - 1)
        /\ labels[Len(labels)].key = [month |-> KeyMonth(TodayKey) - 1, year |-> KeyYear(TodayKey)]

-----------------------------------------------------------------------------
(* Properties of the counts, the colours and the total *)

\* the instant at which the local calendar day of key k begins
KeyStart(k) == DaysFromCivil(KeyYear(k), KeyMonth(k), KeyDate(k)) * HoursPerDay - tz

\* the events of the list whose completedAt lies in the local day of key k
EventsOn(list, k) ==
  {i \in 1..Len(list) :
     /\ KeyStart(k) <= list[i].completedAt
     /\ list[i].completedAt < KeyStart(k) + HoursPerDay}

\* the list read in the order p
Permuted(list, p) == [i \in 1..Len(list) |-> list[p[i]]]

\* the keys of the days on screen and of the counts
KeysOfInterest ==
  LET real == RealDays
  IN  {real[i] : i \in 1..Len(real)} \cup DOMAIN memoCounts.value

\* C5: completionCounts[k] is the number of events whose local date is k, a
\* key without events is absent, and the counts do not depend on the order of
\* the events
C5_CountsPerLocalDay ==
  Mounted =>
    LET counts == memoCounts.value
    IN  /\ \A k \in KeysOfInterest :
             /\ k \in DOMAIN counts <=> EventsOn(completions, k) # {}
             /\ k \in DOMAIN counts => counts[k] = Cardinality(EventsOn(completions, k))
        /\ \A p \in Permutations(1..Len(completions)) :
             ComputeCounts(Permuted(completions, p)) = counts

\* C5 witness: two events on one local day at different times give one key
\* with count 2
C5_Witness ==
  /\ Mounted
  /\ Len(completions) = 2
  /\ completions[1].completedAt # completions[2].completedAt
  /\ DOMAIN memoCounts.value = {20240229}
  /\ memoCounts.value[20240229] = 2

\* C6: the total is the length of the completions list
C6_TotalIsLength ==
  Mounted => memoTotal.value = Len(completions) /\ view.total = Len(completions)

\* C6 witness: three completions on two days
C6_Witness ==
  /\ Mounted
  /\ Len(completions) = 3
  /\ Cardinality(DOMAIN memoCounts.value) = 2
  /\ view.total = 3

BucketOfClass(class) ==
  CASE class = "bg-neutral-100 dark:bg-neutral-800" -> "empty"
    [] class = "bg-emerald-200 dark:bg-emerald-500" -> "low"
    [] class = "bg-emerald-300 dark:bg-emerald-600" -> "medium"
    [] class = "bg-emerald-400 dark:bg-emerald-700" -> "high"
    [] class = "bg-emerald-500 dark:bg-emerald-800" -> "max"
    [] OTHER -> "none"

BucketOfCount(c) ==
  IF c = 0 THEN "empty"
  ELSE IF c \in 1..2 THEN "low"
  ELSE IF c \in 3..5 THEN "medium"
  ELSE IF c \in 6..10 THEN "high"
  ELSE "max"

BucketRank(b) ==
  CASE b = "empty" -> 0 [] b = "low" -> 1 [] b = "medium" -> 2 [] b = "high" -> 3
    [] b = "max" -> 4 [] OTHER -> -1

\* the cells of the real days on screen
RealCells ==
  {view.cells[w][s] : w \in 1..Len(view.cells), s \in 1..7} \ {GridCell(NULL, <<>>)}

\* C7: getColorClass puts 0 in empty, 1-2 in low, 3-5 in medium, 6-10 in
\* high, 11 and more in max; a larger count never gets a lower bucket; the
\* cell of a day without a key in completionCounts is coloured as count 0
C7_ColorBuckets ==
  Mounted =>
    /\ \A c \in (0..MaxCount) \cup {1000} :
         BucketOfClass(getColorClass(c)) = BucketOfCount(c)
    /\ \A c1, c2 \in 0..MaxCount :
         c1 <= c2 => BucketRank(BucketOfClass(getColorClass(c1)))
                       <= BucketRank(BucketOfClass(getColorClass(c2)))
    /\ \A cell \in RealCells :
         /\ BucketOfClass(cell.class) = BucketOfCount(Cardinality(EventsOn(completions, cell.day)))
         /\ cell.day \notin DOMAIN memoCounts.value =>
              cell.count = 0 /\ BucketOfClass(cell.class) = "empty"

\* C7 witness: the screen shows a day of the max bucket, a day of the high
\* bucket and days without completions
C7_Witness ==
  /\ Mounted
  /\ \E cell \in RealCells : cell.count >= 11 /\ BucketOfClass(cell.class) = "max"
  /\ \E cell \in RealCells : cell.count \in 6..10 /\ BucketOfClass(cell.class) = "high"
  /\ \E cell \in RealCells :
       cell.day \notin DOMAIN memoCounts.value /\ BucketOfClass(cell.class) = "empty"

-----------------------------------------------------------------------------
(* Properties of a mounted lifetime *)

\* C9: at every render the grid on screen spans the year that ends on the
\* date current at that render
C9_GridFollowsTheClock ==
  Mounted =>
    LET real == RealDays
    IN  /\ Len(real) > 0
        /\ real[Len(real)] = TodayKey
        /\ real[1] = YearBeforeKey(TodayKey)

\* C10: after any changes of the completions prop, the counts, the buckets of
\* the day cells and the total on screen are those of the list passed at the
\* last render
C10_ViewShowsCurrentList ==
  Mounted =>
    /\ \A k \in KeysOfInterest :
         CountOr0(memoCounts.value, k) = Cardinality(EventsOn(completions, k))
    /\ \A cell \in RealCells :
         /\ cell.count = Cardinality(EventsOn(completions, cell.day))
         /\ BucketOfClass(cell.class) = BucketOfCount(cell.count)
    /\ view.total = Len(completions)

\* C10 witness: the prop changed twice, the screen shows the two completions
\* of the last list
C10_Witness ==
  /\ Mounted
  /\ completionsRef = 3
  /\ memoCounts.id = 3
  /\ Len(completions) = 2
  /\ view.total = 2
  /\ \E cell \in RealCells : cell.count > 0

RECURSIVE SumCounts(_)
\* the sum of the counts of a set of cells
SumCounts(cells) ==
  IF cells = {} THEN 0
  ELSE LET c == CHOOSE x \in cells : TRUE
       IN  c.count + SumCounts(cells \ {c})

\* the completions of the list whose local date is a real day of the grid on screen
InWindow(list) ==
  LET real == RealDays
  IN  {i \in 1..Len(list) : \E j \in 1..Len(real) : i \in EventsOn(list, real[j])}

\* C11: the number N of "<N> things done in the last year" is the number of
\* supplied completions whose day lies in the grid's window, which is the sum
\* of the counts of the grid's day cells
C11_TotalIsWindowCount ==
  Mounted =>
    /\ view.total = Cardinality(InWindow(completions))
    /\ view.total = SumCounts({c \in RealCells : c.count > 0})

-----------------------------------------------------------------------------
(* Properties of the hover text *)

\* the calendar date a title names, as a "yyyy-MM-dd" key
TitleKey(title) == MakeKey(title.on.year, title.on.month + 1, title.on.date)

\* C12: in every time zone the title of a day cell names the date of the
\* cell's key and shows the count stored for that key (0 when absent)
C12_TitleNamesTheCellsDay ==
  Mounted =>
    \A cell \in RealCells :
      /\ TitleKey(cell.title) = cell.day
      /\ cell.title.count = CountOr0(memoCounts.value, cell.day)

-----------------------------------------------------------------------------
(* Purity *)

-----------------------------------------------------------------------------
(* The calendar and habit dialogs (lines 111-516).  The record `dialog`     *)
(* holds the props the parent passes (isOpen, name, choice), the hooks'     *)
(* state (localName, debouncedName and its pending timer, showDeleteAlert)  *)
(* and what the parent received: the last argument of onNameChange, the     *)
(* numbers of invocations of onSubmit and onDelete, and the last event.     *)

Kinds == {"newCalendar", "newHabit", "editCalendar", "editHabit"}

EditKinds == {"editCalendar", "editHabit"}

\* texts of the name input
Names == {"", "a", "ab"}

\* items of the colour select (calendars) or of the timer select (habits)
Choices == {"first", "second"}

Keys == {"Enter", "x"}

\* the parent's callbacks, as documented at lines 91-98
onSubmit(d) == [d EXCEPT !.submits = @ + 1]

onDelete(d) == [d EXCEPT !.deletes = @ + 1]

onNameChange(d, v) == [d EXCEPT !.delivered = v, !.name = v]

onOpenChange(d, open) == [d EXCEPT !.isOpen = open]

onChoiceChange(d, c) == [d EXCEPT !.choice = c]

\* mutant of parentOnKeyDown: every key submits
parentOnKeyDown_AnyKey(d, key) == onSubmit(d)

\* the parent's onKeyDown: "Keyboard event handler (e.g., for Enter key
\* submission)", line 95
parentOnKeyDown(d, key) == IF key = "Enter" THEN onSubmit(d) ELSE d

\* useDebounce(localName): a change of the value (re)starts the timer
DebounceRestart(d) == [d EXCEPT !.timer = TRUE]

\* setLocalName(v), and the render that follows a change
setLocalName(d, v) ==
  IF v = d.localName THEN d ELSE DebounceRestart([d EXCEPT !.localName = v])

\* mutant of handleKeyDown: the key is not tested
handleKeyDown_AnyKey(d, key) == onSubmit(d)

\* handleKeyDown of EditCalendarDialog, lines 309-314
handleKeyDown(d, key) == IF key = "Enter" THEN onSubmit(d) ELSE d

\* the onKeyDown of the name input: lines 143, 237, 338, 461
InputKeyDown(d, key) ==
  IF d.kind = "editCalendar" THEN handleKeyDown(d, key) ELSE parentOnKeyDown(d, key)

\* useEffect(() => setLocalName(name), [name]) of the edit dialogs, lines
\* 316-318 and 439-441, after a render in which name was oldName before
SyncNameEffect(d, oldName) ==
  IF d.kind \in EditKinds /\ d.name # oldName THEN setLocalName(d, d.name) ELSE d

\* useEffect(() => onNameChange(debouncedName), [debouncedName, onNameChange]),
\* lines 126-128, 220-222, 320-322, 443-445, after a render in which
\* debouncedName was oldDebounced before
NameChangeEffect(d, oldDebounced) ==
  IF d.debouncedName # oldDebounced THEN onNameChange(d, d.debouncedName) ELSE d

\* useDebounce: the timer expires, debouncedName takes the value of
\* localName, and the effects of the following renders run
DebounceExpiry(d) ==
  SyncNameEffect(
    NameChangeEffect([d EXCEPT !.timer = FALSE, !.debouncedName = d.localName],
                     d.debouncedName),
    d.name)

\* mutant of DeleteButtonClick: the button deletes at once
DeleteButtonClick_Direct(d) == onDelete(d)

\* the Delete button, lines 368 and 486
DeleteButtonClick(d) == [d EXCEPT !.showDeleteAlert = TRUE]

\* AlertDialog onOpenChange={setShowDeleteAlert}, lines 379 and 497
setShowDeleteAlert(d, open) == [d EXCEPT !.showDeleteAlert = open]

\* AlertDialogAction onClick={onDelete}, lines 387-388 and 505-506; the
\* action also closes the alert
AlertActionClick(d) == setShowDeleteAlert(onDelete(d), FALSE)

\* the dialog after its first render and the effects of that render
MountDialog(kind, name, choice) ==
  [kind |-> kind, isOpen |-> TRUE, name |-> name, choice |-> choice,
   localName |-> name, debouncedName |-> name, timer |-> TRUE,
   delivered |-> name, showDeleteAlert |-> FALSE,
   submits |-> 0, deletes |-> 0, lastEvent |-> "mount"]

\* the main dialog is open and not covered by the delete confirmation
Interactive == dialog.isOpen /\ ~dialog.showDeleteAlert

\* the step of the dialog caused by event ev
DialogStep(d, ev) ==
  /\ dialog' = [d EXCEPT !.lastEvent = ev]
  /\ UNCHANGED <<overviewVars, request>>

TypeName(v) == Interactive /\ v # dialog.localName /\ DialogStep(setLocalName(dialog, v), "type")

KeyDown(key) ==
  /\ Interactive
  /\ dialog.submits < MaxCalls
  /\ DialogStep(InputKeyDown(dialog, key), IF key = "Enter" THEN "enter" ELSE "key")

SelectChoice(c) == Interactive /\ DialogStep(onChoiceChange(dialog, c), "select")

SaveClick == Interactive /\ dialog.submits < MaxCalls /\ DialogStep(onSubmit(dialog), "save")

CancelClick == Interactive /\ DialogStep(onOpenChange(dialog, FALSE), "cancel")

\* Escape, the close button or a click outside: Dialog onOpenChange
CloseDialog == Interactive /\ DialogStep(onOpenChange(dialog, FALSE), "close")

DeleteClick ==
  /\ Interactive
  /\ dialog.kind \in EditKinds
  /\ DialogStep(DeleteButtonClick(dialog), "delete")

AlertCancelClick ==
  /\ dialog.showDeleteAlert
  /\ DialogStep(setShowDeleteAlert(dialog, FALSE), "alertCancel")

AlertConfirmClick ==
  /\ dialog.showDeleteAlert
  /\ dialog.deletes < MaxCalls
  /\ DialogStep(AlertActionClick(dialog), "alertConfirm")

DebounceTimer == dialog.timer /\ DialogStep(DebounceExpiry(dialog), "timer")

\* the parent opens the dialog again, with the name of the item to edit
ParentOpens(v) ==
  /\ ~dialog.isOpen
  /\ DialogStep(SyncNameEffect([dialog EXCEPT !.isOpen = TRUE, !.name = v], dialog.name), "open")

\* the yearly overview is not on the page
OverviewAbsent ==
  /\ tz = 0
  /\ clock = 0
  /\ completions = <<>>
  /\ completionsRef = 1
  /\ phase = "unmounted"
  /\ memoSkeleton = NoCell
  /\ memoCounts = NoCell
  /\ memoTotal = NoCell
  /\ view = NoView
  /\ renderedAt = 0

InitDialog ==
  /\ \E kind \in Kinds, name \in Names, c \in Choices : dialog = MountDialog(kind, name, c)
  /\ request = NoRequest
  /\ OverviewAbsent

NextDialog ==
  \/ \E v \in Names : TypeName(v)
  \/ \E key \in Keys : KeyDown(key)
  \/ \E c \in Choices : SelectChoice(c)
  \/ SaveClick
  \/ CancelClick
  \/ CloseDialog
  \/ DeleteClick
  \/ AlertCancelClick
  \/ AlertConfirmClick
  \/ DebounceTimer
  \/ \E v \in Names : ParentOpens(v)

SpecDialog == InitDialog /\ [][NextDialog]_vars

-----------------------------------------------------------------------------
(* The i18n request configuration (src/unnamed/part_000, lines 77-91).      *)
(* `request` holds the routing configuration the server runs with, the      *)
(* locale of the incoming request and the configuration returned for it.    *)

\* the value of a request without a locale segment
Undefined == "undefined"

LocalePool == {"en", "he", "ru", "xx"}

RequestLocales == LocalePool \cup {Undefined, ""}

\* the routing configurations: a non-empty list of supported locales and a
\* default locale taken from it
Routings ==
  {[locales |-> ls, defaultLocale |-> d] :
     <<ls, d>> \in {p \in (SUBSET LocalePool) \X LocalePool : p[2] \in p[1]}}

\* the path `../messages/${locale}.json`
MessagesPath(locale) == <<"..", "messages", locale, "json">>

\* the default export of the imported module
ImportDefault(path) == [loadedFrom |-> path]

\* !locale
Falsy(locale) == locale = Undefined \/ locale = ""

\* mutant of RequestConfig: only a missing locale falls back to the default
RequestConfig_NoMembershipTest(routing, requestLocale) ==
  LET locale == IF Falsy(requestLocale) THEN routing.defaultLocale ELSE requestLocale
  IN  [locale |-> locale,
       messages |-> ImportDefault(MessagesPath(locale)),
       timeZone |-> "UTC"]

\* the callback given to getRequestConfig, lines 77-91
RequestConfig(routing, requestLocale) ==
  LET locale == IF Falsy(requestLocale) \/ requestLocale \notin routing.locales
                THEN routing.defaultLocale
                ELSE requestLocale
  IN  [locale |-> locale,
       messages |-> ImportDefault(MessagesPath(locale)),
       timeZone |-> "UTC"]

\* a request arrives with its locale segment
IncomingRequest(l) ==
  /\ request.phase \in {"idle", "done"}
  /\ request' = [phase |-> "pending", routing |-> request.routing, requestLocale |-> l]
  /\ UNCHANGED <<overviewVars, dialog>>

\* the callback runs for the pending request
Configure ==
  /\ request.phase = "pending"
  /\ request' = [phase |-> "done", routing |-> request.routing,
                 requestLocale |-> request.requestLocale,
                 config |-> RequestConfig(request.routing, request.requestLocale)]
  /\ UNCHANGED <<overviewVars, dialog>>

InitRequest ==
  /\ \E r \in Routings : request = [phase |-> "idle", routing |-> r]
  /\ dialog = NoDialog
  /\ OverviewAbsent

NextRequest == (\E l \in RequestLocales : IncomingRequest(l)) \/ Configure

SpecRequest == InitRequest /\ [][NextRequest]_vars

-----------------------------------------------------------------------------
EditDialog == dialog.kind \in EditKinds

\* C14: in the edit dialogs onSubmit is invoked only by the Save button or by
\* Enter in the name field: a step that invokes onSubmit is one of these two
\* events, and typing, selecting, Cancel, closing the dialog, opening or
\* cancelling the delete confirmation, the debounce timer and a reopening by
\* the parent leave the number of invocations as it was.
C14_SubmitOnlyWhenSaved ==
  [][EditDialog =>
       /\ dialog'.submits # dialog.submits =>
            /\ dialog'.lastEvent \in {"save", "enter"}
            /\ dialog'.submits = dialog.submits + 1
       /\ dialog'.lastEvent \in {"type", "key", "select", "cancel", "close", "delete",
                                 "alertCancel", "alertConfirm", "timer", "open"} =>
            dialog'.submits = dialog.submits]_vars

C14_Witness ==
  /\ dialog.kind = "editCalendar"
  /\ dialog.submits = 2
  /\ dialog.lastEvent = "enter"
  /\ dialog.localName = "ab"
  /\ dialog.name = "a"

\* C15: in the edit dialogs the delete confirmation starts closed and nothing
\* has been deleted; the confirmation opens only by the Delete button, which
\* invokes nothing; onDelete is invoked only by the confirm action, once, while
\* the confirmation is open; cancelling the confirmation invokes nothing.
C15_DeleteOnlyWhenConfirmed ==
  /\ EditDialog => (~dialog.showDeleteAlert /\ dialog.deletes = 0)
  /\ [][EditDialog =>
          /\ dialog'.deletes # dialog.deletes =>
               /\ dialog.showDeleteAlert
               /\ dialog'.lastEvent = "alertConfirm"
               /\ dialog'.deletes = dialog.deletes + 1
          /\ (dialog'.showDeleteAlert /\ ~dialog.showDeleteAlert) =>
               dialog'.lastEvent = "delete"
          /\ dialog'.lastEvent \in {"delete", "alertCancel"} =>
               dialog'.deletes = dialog.deletes]_vars

C15_Witness ==
  /\ EditDialog
  /\ dialog.deletes = 1
  /\ dialog.lastEvent = "alertConfirm"
  /\ ~dialog.showDeleteAlert

\* C16: in each of the four dialogs, whenever onSubmit is invoked, the name
\* last delivered through onNameChange is the text shown in the name input.
C16_SubmitSeesShownName ==
  [][dialog'.submits # dialog.submits => dialog.delivered = dialog.localName]_vars

\* C17: the configuration returned for a request has a supported locale: the
\* requested one when it is supported, the default one when the requested
\* locale is missing or unsupported; its messages are those of that locale.
C17_ConfiguredLocaleIsSupported ==
  request.phase = "done" =>
    /\ request.config.locale \in request.routing.locales
    /\ request.requestLocale \in request.routing.locales =>
         request.config.locale = request.requestLocale
    /\ request.requestLocale \notin request.routing.locales =>
         request.config.locale = request.routing.defaultLocale
    /\ request.config.messages = ImportDefault(MessagesPath(request.config.locale))

C17_Witness ==
  /\ request.phase = "done"
  /\ request.requestLocale = "xx"
  /\ request.routing.locales = {"en", "he"}
  /\ request.config.locale = "he"
  /\ request.config.messages.loadedFrom[3] = "he"

====
